---- MODULE Spec2Model ----
(***************************************************************************)
(* Driver Log Bot (src/driver_log_bot.py): the two conversations           *)
(* (/register, /log_drive) run by python-telegram-bot and the 50 km HA     *)
(* cycle rule applied when a drive capture is finalized.                   *)
(*                                                                         *)
(* Numbers.  Python floats are modelled in fixed point, in hundredths of a *)
(* kilometre (1000 is 10.00 km), plus the one float that is no number,     *)
(* NaN, which float("nan") yields and on which every comparison is false.  *)
(* Texts are sequences of one-character strings, so that strip(),          *)
(* replace(",", ""), float() and strptime() are computed, not assumed.     *)
(*                                                                         *)
(* add_three_months: the module imports pandas unconditionally (line 28),  *)
(* and pandas cannot be imported without python-dateutil, so in every      *)
(* process that gets as far as defining the handlers the try branch        *)
(* (relativedelta, lines 40-44) is the one in force; the 90-day fallback   *)
(* (lines 45-48) is not reachable and is not modelled.                     *)
(*                                                                         *)
(* The "timestamp" field of a drive record (the wall clock at finalize) is *)
(* written and never read by any decision; it is left out of the record.   *)
(***************************************************************************)
EXTENDS Integers, Sequences, FiniteSets, TLC

\* ---------------------------------------------------------------- bounds

\* Finalize is not taken once the accounts hold this many drives in all.
MaxDrives == 2

\* With concurrent updates, no update is taken while this many handler
\* calls are in flight.
MaxRunning == 2

\* ------------------------------------------------------- keys and inputs

\* Telegram user ids and chat ids; a conversation key is (chat, user).
Users == {"u1", "u2"}
Chats == {"c1", "c2"}

\* ---------------------------------------------------------------- texts

\* str.strip(): leading and trailing blanks removed.
RECURSIVE LStrip(_)
LStrip(s) == IF s # << >> /\ Head(s) = " " THEN LStrip(Tail(s)) ELSE s

RECURSIVE RStrip(_)
RStrip(s) ==
    IF s # << >> /\ s[Len(s)] = " " THEN RStrip(SubSeq(s, 1, Len(s) - 1)) ELSE s

Strip(s) == RStrip(LStrip(s))

\* str.replace(",", "")
RECURSIVE RemoveCommas(_)
RemoveCommas(s) ==
    IF s = << >> THEN << >>
    ELSE IF Head(s) = "," THEN RemoveCommas(Tail(s))
         ELSE <<Head(s)>> \o RemoveCommas(Tail(s))

Digits == {"0", "1", "2", "3", "4", "5", "6", "7", "8", "9"}

DigitVal(ch) ==
    CASE ch = "0" -> 0 [] ch = "1" -> 1 [] ch = "2" -> 2 [] ch = "3" -> 3
      [] ch = "4" -> 4 [] ch = "5" -> 5 [] ch = "6" -> 6 [] ch = "7" -> 7
      [] ch = "8" -> 8 [] ch = "9" -> 9

IsDigits(s) == s # << >> /\ \A i \in 1..Len(s) : s[i] \in Digits

RECURSIVE ToInt(_)
ToInt(s) ==
    IF s = << >> THEN 0
    ELSE 10 * ToInt(SubSeq(s, 1, Len(s) - 1)) + DigitVal(s[Len(s)])

\* Position of the first ch in s, 0 when there is none.
IndexOf(s, ch) ==
    IF \E i \in 1..Len(s) : s[i] = ch
    THEN CHOOSE i \in 1..Len(s) : s[i] = ch /\ \A j \in 1..(i - 1) : s[j] # ch
    ELSE 0

\* ---------------------------------------------------------------- floats

\* The float nan; no reading of the model's inputs comes near this value.
NaN == -999999999

IsNaN(x) == x = NaN

\* Comparisons and arithmetic of floats: false, or nan, as soon as one
\* operand is nan.
FLt(a, b) == ~IsNaN(a) /\ ~IsNaN(b) /\ a < b
FGe(a, b) == ~IsNaN(a) /\ ~IsNaN(b) /\ a >= b
FSub(a, b) == IF IsNaN(a) \/ IsNaN(b) THEN NaN ELSE a - b

\* round(x, 1): to the nearest tenth (ten hundredths), a tie to the even
\* tenth; round(nan, 1) is nan.
Round1(x) ==
    IF IsNaN(x) THEN NaN
    ELSE LET q == x \div 10
             r == x % 10
         IN  IF r < 5 THEN 10 * q
             ELSE IF r > 5 THEN 10 * (q + 1)
             ELSE IF q % 2 = 0 THEN 10 * q ELSE 10 * (q + 1)

\* float(txt) for the texts of the model: "nan", or an optional sign, digits
\* and an optional fraction of one or two digits.  [ok, val]: ok is FALSE
\* where float() raises ValueError.
UnsignedFloat(s) ==
    LET p == IndexOf(s, ".")
        ip == IF p = 0 THEN s ELSE SubSeq(s, 1, p - 1)
        fp == IF p = 0 THEN << >> ELSE SubSeq(s, p + 1, Len(s))
    IN  IF p = 0
        THEN IF IsDigits(s) THEN [ok |-> TRUE, val |-> 100 * ToInt(s)]
             ELSE [ok |-> FALSE, val |-> 0]
        ELSE IF IsDigits(ip) /\ IsDigits(fp) /\ Len(fp) <= 2
             THEN [ok |-> TRUE,
                   val |-> 100 * ToInt(ip)
                           + (IF Len(fp) = 1 THEN 10 * ToInt(fp) ELSE ToInt(fp))]
             ELSE [ok |-> FALSE, val |-> 0]

ParseFloat(s) ==
    IF s = <<"n", "a", "n">> THEN [ok |-> TRUE, val |-> NaN]
    ELSE IF s # << >> /\ Head(s) = "-"
         THEN LET u == UnsignedFloat(Tail(s))
              IN  [ok |-> u.ok, val |-> 0 - u.val]
         ELSE IF s # << >> /\ Head(s) = "+" THEN UnsignedFloat(Tail(s))
              ELSE UnsignedFloat(s)

\* The odometer handlers' parse: strip, drop commas, float(), and
\* "if odo < 0: raise ValueError" (nan < 0 is false: nan is accepted).
ParseOdo(txt) ==
    LET f == ParseFloat(RemoveCommas(Strip(txt)))
    IN  IF f.ok /\ ~FLt(f.val, 0) THEN f ELSE [ok |-> FALSE, val |-> 0]

\* ----------------------------------------------------------------- dates

IsLeap(y) == (y % 4 = 0 /\ y % 100 # 0) \/ y % 400 = 0

DaysIn(y, m) ==
    IF m = 2 THEN (IF IsLeap(y) THEN 29 ELSE 28)
    ELSE IF m \in {4, 6, 9, 11} THEN 30 ELSE 31

\* datetime.strptime(txt, "%Y-%m-%d").date().isoformat(): a four-digit
\* year, a month and a day of one or two digits, a real calendar date.  The
\* stored string is the normalised one, so "2025-1-31" and "2025-01-31"
\* store the same date: the date is modelled by its three numbers.
ParseDate(s) ==
    LET bad == [ok |-> FALSE, y |-> 0, m |-> 0, d |-> 0]
        p1 == IndexOf(s, "-")
        rest == IF p1 = 0 THEN << >> ELSE SubSeq(s, p1 + 1, Len(s))
        p2 == IndexOf(rest, "-")
        ys == IF p1 = 0 THEN << >> ELSE SubSeq(s, 1, p1 - 1)
        ms == IF p2 = 0 THEN << >> ELSE SubSeq(rest, 1, p2 - 1)
        ds == IF p2 = 0 THEN << >> ELSE SubSeq(rest, p2 + 1, Len(rest))
    IN  IF p1 = 0 \/ p2 = 0 THEN bad
        ELSE IF ~(IsDigits(ys) /\ Len(ys) = 4 /\ IsDigits(ms) /\ Len(ms) <= 2
                  /\ IsDigits(ds) /\ Len(ds) <= 2) THEN bad
        ELSE LET y == ToInt(ys)
                 m == ToInt(ms)
                 d == ToInt(ds)
             IN  IF y >= 1 /\ m \in 1..12 /\ d >= 1 /\ d <= DaysIn(y, m)
                 THEN [ok |-> TRUE, y |-> y, m |-> m, d |-> d]
                 ELSE bad

Date(y, m, d) == [y |-> y, m |-> m, d |-> d]

\* The date n days after dt, month by month.
RECURSIVE AddDays(_, _)
AddDays(dt, n) ==
    IF dt.d + n <= DaysIn(dt.y, dt.m) THEN Date(dt.y, dt.m, dt.d + n)
    ELSE AddDays(IF dt.m < 12 THEN Date(dt.y, dt.m + 1, 1)
                 ELSE Date(dt.y + 1, 1, 1),
                 n - (DaysIn(dt.y, dt.m) - dt.d + 1))

\* The fallback of lines 45-48, d + timedelta(days=90), were it the
\* definition in force.
add_three_months_90_days(dt) == AddDays(dt, 90)

\* datetime.MAXYEAR
MAXYEAR == 9999

\* d + relativedelta(months=3) raises ValueError (year 10000 is out of
\* range) for a date in the last three months of the year 9999.
add_three_months_raises(dt) == dt.y = MAXYEAR /\ dt.m + 3 > 12

\* d + relativedelta(months=3): the same day three months on, the last day
\* of that month when it has no such day.
add_three_months(dt) ==
    LET mm == dt.m + 3
        y2 == dt.y + ((mm - 1) \div 12)
        m2 == ((mm - 1) % 12) + 1
        d2 == IF dt.d > DaysIn(y2, m2) THEN DaysIn(y2, m2) ELSE dt.d
    IN  Date(y2, m2, d2)

\* ------------------------------------------------- states and constants

\* ConversationHandler.END, and the five states of lines 62-68.
END == "END"
REGISTER_NAME == "REGISTER_NAME"
LOG_VEHICLE == "LOG_VEHICLE"
LOG_DATE == "LOG_DATE"
LOG_ODO_START == "LOG_ODO_START"
LOG_ODO_END == "LOG_ODO_END"

\* 50.0 km, in hundredths.
FIFTY == 5000

\* "HA status pending.": the ha_expiry of an account with no expiry date.
Pending == Date(0, 0, 0)

\* None where a date string is expected (user_data.get("date_of_drive")).
NoneDate == Date(-1, -1, -1)

\* None where a vehicle string is expected (user_data.get("vehicle")).
NoneStr == <<"None">>

\* The commands, each one token of the text (its bot_command entity).
CmdStart == <<"/start">>
CmdRegister == <<"/register">>
CmdLogDrive == <<"/log_drive">>
CmdStatus == <<"/status">>
CmdCancel == <<"/cancel">>

\* ------------------------------------------------------------ the inputs

NameTexts == { <<" ">>, <<"B", "o", "b", " ">> }

VehicleTexts == { <<" ", " ">>, <<" ", "V", "1">> }

DateTexts ==
    { <<"2", "0", "2", "5", "-", "1", "-", "3", "1">>,
      <<"2", "0", "2", "5", "-", "0", "2", "-", "3", "0">>,
      <<"3", "1", "/", "0", "1", "/", "2", "0", "2", "5">> }

OdoStartTexts ==
    { <<"1", ",", "0", "0", "0">>, <<"-", "5">>, <<"a", "b", "c">> }

OdoEndTexts ==
    { <<"9", "9", "0">>, <<"1", "0", "0", "0">>,
      <<"1", ",", "0", "1", "0", ".", "0">>,
      <<" ", "n", "a", "n", " ">>, <<"-", "1">>, <<"1", "2", "k", "m">> }

\* datetime.now() at line 352, the day the bot runs.
Clock == { Date(2025, 11, 30) }

\* user.first_name of a Telegram user (line 329).
FirstName(u) == <<"D", "r", "i", "v", "e", "r">>

\* ----------------------------------------------------------------- state

VARIABLES
    db,              \* the accounts: uid -> record (the global dict of line 82)
    user_data,       \* context.user_data: one dict per user, for all chats
    register_conv,   \* register_conv's state per key (chat, user)
    log_drive_conv,  \* log_drive_conv's state per key (chat, user)
    update,          \* the update the dispatcher handled last, and its fate
    reset_at,        \* per user: how many drives were stored at the last reset
    appends,         \* per key: drives appended since the capture began
    running          \* the handler calls begun and not yet returned

vars ==
    <<db, user_data, register_conv, log_drive_conv, update, reset_at, appends,
      running>>

Keys == Chats \X Users

\* The key of a ConversationHandler built with per_user=False.
Key_per_chat(u, c) == <<c, "u1">>

Key(u, c) == <<c, u>>

\* A dict: a function on the keys it holds.
EmptyDict == [k \in {} |-> 0]

Has(d, k) == k \in DOMAIN d

Put(d, k, v) == [x \in DOMAIN d \cup {k} |-> IF x = k THEN v ELSE d[x]]

\* What became of the collaborators' calls of one handler: saved is whether
\* its save_data calls wrote DATA_FILE, exported whether
\* append_drive_to_excel wrote EXCEL_FILE.  Neither file is read again by
\* the running bot (load_data runs once, before the first update).
Good == [saved |-> TRUE, exported |-> TRUE]

IOs == [saved : BOOLEAN, exported : BOOLEAN]

\* An update and what became of it: replied is whether the handler that
\* took it got its reply_text through (FALSE also when no handler took it),
\* io what became of the handler's writes to disk.
NoUpdate ==
    [user |-> "", chat |-> "", text |-> << >>, replied |-> FALSE, io |-> Good]

Update(u, c, txt, ok) ==
    [user |-> u, chat |-> c, text |-> txt, replied |-> ok, io |-> Good]

Init ==
    /\ db = EmptyDict
    /\ user_data = [u \in Users |-> EmptyDict]
    /\ register_conv = [k \in Keys |-> END]
    /\ log_drive_conv = [k \in Keys |-> END]
    /\ update = NoUpdate
    /\ reset_at = [u \in Users |-> 0]
    /\ appends = [k \in Keys |-> 0]
    /\ running = << >>

\* --------------------------------------------------------- the dispatcher

\* ConversationHandler.check_update with allow_reentry left False: an entry
\* point is tried only when the key holds no conversation; otherwise the
\* state's handlers, then the fallbacks.  The handlers are all in group 0,
\* in the order start, register_conv, log_drive_conv, status, cancel: the
\* first that matches takes the update and the others never see it.
RegisterEntryMatches(u, c) == register_conv[Key(u, c)] = END

\* The entry point as allow_reentry=True would try it.
LogDriveEntryMatches_reentry(u, c) == TRUE

LogDriveEntryMatches(u, c) == log_drive_conv[Key(u, c)] = END

\* A text that is no command goes to register_conv while it is open ...
TextToRegister(u, c) == register_conv[Key(u, c)] = REGISTER_NAME

\* ... and to log_drive_conv, in state st, only when register_conv is not.
TextToLogDrive(u, c, st) ==
    /\ register_conv[Key(u, c)] = END
    /\ log_drive_conv[Key(u, c)] = st

\* The account record every creation branch builds (lines 156-161,
\* 171-176, 328-333).
NewRecord(name) ==
    [driver_name |-> name, current_deficit |-> 0, ha_expiry |-> Pending,
     drives |-> << >>]

\* register_user that builds the record anew for a known id too.
register_user_anew(d, u, name) == Put(d, u, NewRecord(name))

\* register_user (lines 153-164): a new record, or only the name replaced.
register_user(d, u, name) ==
    IF ~Has(d, u) THEN Put(d, u, NewRecord(name))
    ELSE [d EXCEPT ![u].driver_name = name]

\* add_drive_record with insert(0, drive_record) for append(drive_record).
add_drive_record_at_head(d, u, drive_record) ==
    LET d1 == IF ~Has(d, u) THEN Put(d, u, NewRecord(<<"Unknown">>)) ELSE d
    IN  [d1 EXCEPT ![u].drives = <<drive_record>> \o @]

\* add_drive_record (lines 167-178)
add_drive_record(d, u, drive_record) ==
    LET d1 == IF ~Has(d, u) THEN Put(d, u, NewRecord(<<"Unknown">>)) ELSE d
    IN  [d1 EXCEPT ![u].drives = Append(@, drive_record)]

\* ------------------------------------------------------------- the rule

\* Lines 340-342: 50 - current_deficit, and 0 where that is negative.
required_to_hit_50(current_deficit) ==
    LET r == FSub(FIFTY, current_deficit)
    IN  IF FLt(r, 0) THEN 0 ELSE r

\* The rule with > where line 345 has >=.
RequirementMet_strict(distance, current_deficit) ==
    /\ FGe(distance, required_to_hit_50(current_deficit))
    /\ distance # required_to_hit_50(current_deficit)

\* Line 345
RequirementMet(distance, current_deficit) ==
    FGe(distance, required_to_hit_50(current_deficit))

\* Lines 347-354 and 363-364: the new deficit and the new expiry.  A date
\* string that strptime cannot read (None) gives datetime.now().
ApplyRule(current_deficit, distance, date_of_drive_str, now) ==
    IF RequirementMet(distance, current_deficit)
    THEN [new_current_deficit |-> 0,
          ha_expiry_str |->
              add_three_months(IF date_of_drive_str = NoneDate THEN now
                               ELSE date_of_drive_str)]
    ELSE [new_current_deficit |->
              Round1(FSub(required_to_hit_50(current_deficit), distance)),
          ha_expiry_str |-> Pending]

\* Lines 345-353: the reset branch is taken and add_three_months raises on
\* the date of the candidate: the handler ends there, before the append.
RuleRaises(d, u, odo_start, odo_end) ==
    LET current_deficit == IF Has(d, u) THEN d[u].current_deficit ELSE 0
    IN  /\ RequirementMet(FSub(odo_end, odo_start), current_deficit)
        /\ Has(user_data[u], "date_of_drive")
        /\ add_three_months_raises(user_data[u]["date_of_drive"])

\* The finalize that writes ha_expiry only when the cycle is reset.
Finalize_expiry_kept(d, u, odo_start, odo_end, now) ==
    LET vehicle == IF Has(user_data[u], "vehicle")
                   THEN user_data[u]["vehicle"] ELSE NoneStr
        date_of_drive_str == IF Has(user_data[u], "date_of_drive")
                             THEN user_data[u]["date_of_drive"] ELSE NoneDate
        distance == FSub(odo_end, odo_start)
        d1 == IF ~Has(d, u) THEN Put(d, u, NewRecord(FirstName(u))) ELSE d
        rule == ApplyRule(d1[u].current_deficit, distance, date_of_drive_str, now)
        drive_record == [date |-> date_of_drive_str, vehicle |-> vehicle,
                         odo_start |-> odo_start, odo_end |-> odo_end,
                         distance |-> Round1(distance)]
        d2 == add_drive_record(d1, u, drive_record)
    IN  [d2 EXCEPT ![u].current_deficit = rule.new_current_deficit,
                   ![u].ha_expiry = IF rule.ha_expiry_str = Pending THEN @
                                    ELSE rule.ha_expiry_str]

\* Lines 316-385: the account store after the finalize of a capture.
Finalize(d, u, odo_start, odo_end, now) ==
    LET vehicle == IF Has(user_data[u], "vehicle")
                   THEN user_data[u]["vehicle"] ELSE NoneStr
        date_of_drive_str == IF Has(user_data[u], "date_of_drive")
                             THEN user_data[u]["date_of_drive"] ELSE NoneDate
        distance == FSub(odo_end, odo_start)
        d1 == IF ~Has(d, u) THEN Put(d, u, NewRecord(FirstName(u))) ELSE d
        rule == ApplyRule(d1[u].current_deficit, distance, date_of_drive_str, now)
        drive_record == [date |-> date_of_drive_str, vehicle |-> vehicle,
                         odo_start |-> odo_start, odo_end |-> odo_end,
                         distance |-> Round1(distance)]
        d2 == add_drive_record(d1, u, drive_record)
    IN  [d2 EXCEPT ![u].current_deficit = rule.new_current_deficit,
                   ![u].ha_expiry = rule.ha_expiry_str]

\* -------------------------------------------------------- collaborators

\* save_data without its except clause: a failed write raises to the caller.
save_data_raises_uncaught(saved) == ~saved

\* save_data (lines 101-106): whether the call raises to its caller when the
\* write fails.  "except Exception" prints the error and returns.
save_data_raises(saved) == FALSE

\* The export called outside a try statement.
export_raises_uncaught(exported) == ~exported

\* Lines 391-395: whether a failure of append_drive_to_excel raises out of
\* the try statement around it.  "except Exception" prints and goes on.
export_raises(exported) == FALSE

\* -------------------------------------------------------------- handlers

\* Every handler ends with "await reply_text(...)" and its return.  ok is
\* whether that send went through: when it raises, what the handler did
\* before it stays done, the handler returns no state, and the conversation
\* stays in the state it was in.
After(ok, old, next) == IF ok THEN next ELSE old

\* /start (lines 197-217) and /status (lines 414-427) only read db.
Start(u, c, ok) ==
    /\ update' = Update(u, c, CmdStart, ok)
    /\ UNCHANGED <<db, user_data, register_conv, log_drive_conv, reset_at, appends>>

Status(u, c, ok) ==
    /\ update' = Update(u, c, CmdStatus, ok)
    /\ UNCHANGED <<db, user_data, register_conv, log_drive_conv, reset_at, appends>>

\* /register (lines 223-225)
RegisterCommand(u, c, ok) ==
    /\ RegisterEntryMatches(u, c)
    /\ update' = Update(u, c, CmdRegister, ok)
    /\ register_conv' =
           [register_conv EXCEPT ![Key(u, c)] = After(ok, @, REGISTER_NAME)]
    /\ UNCHANGED <<db, user_data, log_drive_conv, reset_at, appends>>

\* register_name_received (lines 228-240).  register_user ends with
\* save_data (line 164); were that to raise, the reply and the return of END
\* would be skipped.
RegisterNameReceived(u, c, txt, ok, io) ==
    /\ TextToRegister(u, c)
    /\ LET name == Strip(txt)
           sent == ok /\ ~save_data_raises(io.saved)
       IN  IF name = << >>
           THEN /\ update' = Update(u, c, txt, ok)
                /\ UNCHANGED <<db, register_conv>>
           ELSE /\ update' = [Update(u, c, txt, sent) EXCEPT !.io.saved = io.saved]
                /\ db' = register_user(db, u, name)
                /\ register_conv' =
                       [register_conv EXCEPT ![Key(u, c)] = After(sent, @, END)]
    /\ UNCHANGED <<user_data, log_drive_conv, reset_at, appends>>

\* log_drive_command without its gate.
NoRecord_ungated(d, u) == FALSE

\* Lines 248-249: rec = get_user_record(user.id), "if not rec" (a record is
\* a dict with four keys, never falsy).
NoRecord(d, u) == ~Has(d, u)

\* /log_drive (lines 246-254)
LogDriveCommand(u, c, ok) ==
    /\ LogDriveEntryMatches(u, c)
    /\ update' = Update(u, c, CmdLogDrive, ok)
    /\ IF NoRecord(db, u)
       THEN UNCHANGED <<log_drive_conv, appends>>
       ELSE /\ log_drive_conv' =
                   [log_drive_conv EXCEPT ![Key(u, c)] = After(ok, @, LOG_VEHICLE)]
            /\ appends' = [appends EXCEPT ![Key(u, c)] = After(ok, @, 0)]
    /\ UNCHANGED <<db, user_data, register_conv, reset_at>>

\* log_vehicle_received (lines 257-264)
LogVehicleReceived(u, c, txt, ok) ==
    /\ TextToLogDrive(u, c, LOG_VEHICLE)
    /\ update' = Update(u, c, txt, ok)
    /\ LET vehicle == Strip(txt)
       IN  IF vehicle = << >>
           THEN UNCHANGED <<user_data, log_drive_conv>>
           ELSE /\ user_data' =
                       [user_data EXCEPT ![u] = Put(@, "vehicle", vehicle)]
                /\ log_drive_conv' =
                       [log_drive_conv EXCEPT ![Key(u, c)] = After(ok, @, LOG_DATE)]
    /\ UNCHANGED <<db, register_conv, reset_at, appends>>

\* log_date_received (lines 267-278)
LogDateReceived(u, c, txt, ok) ==
    /\ TextToLogDrive(u, c, LOG_DATE)
    /\ update' = Update(u, c, txt, ok)
    /\ LET date_obj == ParseDate(Strip(txt))
       IN  IF ~date_obj.ok
           THEN UNCHANGED <<user_data, log_drive_conv>>
           ELSE /\ user_data' =
                       [user_data EXCEPT ![u] =
                           Put(@, "date_of_drive",
                               Date(date_obj.y, date_obj.m, date_obj.d))]
                /\ log_drive_conv' =
                       [log_drive_conv EXCEPT
                           ![Key(u, c)] = After(ok, @, LOG_ODO_START)]
    /\ UNCHANGED <<db, register_conv, reset_at, appends>>

\* log_odo_start_received (lines 281-293)
LogOdoStartReceived(u, c, txt, ok) ==
    /\ TextToLogDrive(u, c, LOG_ODO_START)
    /\ update' = Update(u, c, txt, ok)
    /\ LET odo_start == ParseOdo(txt)
       IN  IF ~odo_start.ok
           THEN UNCHANGED <<user_data, log_drive_conv>>
           ELSE /\ user_data' =
                       [user_data EXCEPT ![u] = Put(@, "odo_start", odo_start.val)]
                /\ log_drive_conv' =
                       [log_drive_conv EXCEPT
                           ![Key(u, c)] = After(ok, @, LOG_ODO_END)]
    /\ UNCHANGED <<db, register_conv, reset_at, appends>>

\* The drives stored in the accounts of S, counted.
RECURSIVE StoredDrives(_)
StoredDrives(S) ==
    IF S = {} THEN 0
    ELSE LET a == CHOOSE x \in S : TRUE
         IN  Len(db[a].drives) + StoredDrives(S \ {a})

\* The handler without the check of line 311.
EndBeforeStart_unchecked(odo_end, odo_start) == FALSE

\* Line 311
EndBeforeStart(odo_end, odo_start) == FLt(odo_end, odo_start)

\* log_odo_end_received (lines 296-408).  From the append on, nothing is
\* awaited until the final reply_text: the account is changed in one step.
\* When that send raises, user_data is not cleared and the conversation
\* stays in LOG_ODO_END, as it does when line 353 raises (the error handler
\* then sends its own message).  save_data runs at lines 178 and 385 and the export
\* at line 392: io is what became of them; were one to raise out of the
\* handler, the final reply and what follows it would be skipped.
LogOdoEndReceived(u, c, txt, ok, now, io) ==
    /\ TextToLogDrive(u, c, LOG_ODO_END)
    /\ LET odo_end == ParseOdo(txt)
           sent == /\ ok
                   /\ ~save_data_raises(io.saved)
                   /\ ~export_raises(io.exported)
       IN  IF ~odo_end.ok
           THEN /\ update' = Update(u, c, txt, ok)
                /\ UNCHANGED <<db, user_data, log_drive_conv, reset_at, appends>>
           ELSE IF ~Has(user_data[u], "odo_start")
           THEN /\ update' = Update(u, c, txt, ok)
                /\ log_drive_conv' =
                       [log_drive_conv EXCEPT ![Key(u, c)] = After(ok, @, END)]
                /\ UNCHANGED <<db, user_data, reset_at, appends>>
           ELSE IF EndBeforeStart(odo_end.val, user_data[u]["odo_start"])
           THEN /\ update' = Update(u, c, txt, ok)
                /\ UNCHANGED <<db, user_data, log_drive_conv, reset_at, appends>>
           ELSE IF RuleRaises(db, u, user_data[u]["odo_start"], odo_end.val)
           THEN /\ update' = Update(u, c, txt, FALSE)
                /\ UNCHANGED <<db, user_data, log_drive_conv, reset_at, appends>>
           ELSE /\ StoredDrives(DOMAIN db) < MaxDrives
                /\ update' = [Update(u, c, txt, sent) EXCEPT !.io = io]
                /\ db' = Finalize(db, u, user_data[u]["odo_start"], odo_end.val, now)
                /\ reset_at' =
                       [reset_at EXCEPT ![u] =
                           IF db'[u].ha_expiry # Pending
                           THEN Len(db'[u].drives) ELSE @]
                /\ appends' = [appends EXCEPT ![Key(u, c)] = @ + 1]
                /\ user_data' =
                       [user_data EXCEPT ![u] = After(sent, @, EmptyDict)]
                /\ log_drive_conv' =
                       [log_drive_conv EXCEPT ![Key(u, c)] = After(sent, @, END)]
    /\ UNCHANGED register_conv

\* cancel (lines 430-433): the fallback of register_conv when that is open,
\* else the fallback of log_drive_conv when that is open, else the plain
\* command handler of line 496.  user_data is cleared before the send.
Cancel(u, c, ok) ==
    /\ update' = Update(u, c, CmdCancel, ok)
    /\ user_data' = [user_data EXCEPT ![u] = EmptyDict]
    /\ IF register_conv[Key(u, c)] # END
       THEN /\ register_conv' =
                   [register_conv EXCEPT ![Key(u, c)] = After(ok, @, END)]
            /\ UNCHANGED log_drive_conv
       ELSE IF log_drive_conv[Key(u, c)] # END
       THEN /\ log_drive_conv' =
                   [log_drive_conv EXCEPT ![Key(u, c)] = After(ok, @, END)]
            /\ UNCHANGED register_conv
       ELSE UNCHANGED <<register_conv, log_drive_conv>>
    /\ UNCHANGED <<db, reset_at, appends>>

\* An update no handler matches: /register while register_conv is open,
\* /log_drive while log_drive_conv is open (no entry point is tried, no
\* state handler takes a command, the fallback is /cancel), a plain text
\* while no conversation is open.
Unhandled(u, c, txt) ==
    /\ \/ txt = CmdRegister /\ ~RegisterEntryMatches(u, c)
       \/ txt = CmdLogDrive /\ ~LogDriveEntryMatches(u, c)
       \/ /\ txt \in NameTexts
          /\ register_conv[Key(u, c)] = END
          /\ log_drive_conv[Key(u, c)] = END
    /\ update' = Update(u, c, txt, FALSE)
    /\ UNCHANGED <<db, user_data, register_conv, log_drive_conv, reset_at, appends>>

\* ------------------------------------------------------- specifications

\* The texts the users send, per kind, and what may become of the writes.
AllInputs ==
    [names |-> NameTexts, vehicles |-> VehicleTexts, dates |-> DateTexts,
     starts |-> OdoStartTexts, ends |-> OdoEndTexts, ios |-> {Good}]

\* One update from a user of U in a chat of C, handled to its end by the
\* handler that matches it (concurrent_updates is off and every handler
\* blocks: the application takes the next update when the handler of this
\* one has returned, so a handler call is one step).  Oks is what can become
\* of the handler's reply, In the texts sent.
StepOn(U, C, Oks, In) ==
    \E u \in U, c \in C :
        \/ \E ok \in Oks : Start(u, c, ok) /\ UNCHANGED running
        \/ \E ok \in Oks : Status(u, c, ok) /\ UNCHANGED running
        \/ \E ok \in Oks : RegisterCommand(u, c, ok) /\ UNCHANGED running
        \/ \E txt \in In.names, ok \in Oks, io \in In.ios :
               RegisterNameReceived(u, c, txt, ok, io) /\ UNCHANGED running
        \/ \E ok \in Oks : LogDriveCommand(u, c, ok) /\ UNCHANGED running
        \/ \E txt \in In.vehicles, ok \in Oks :
               LogVehicleReceived(u, c, txt, ok) /\ UNCHANGED running
        \/ \E txt \in In.dates, ok \in Oks :
               LogDateReceived(u, c, txt, ok) /\ UNCHANGED running
        \/ \E txt \in In.starts, ok \in Oks :
               LogOdoStartReceived(u, c, txt, ok) /\ UNCHANGED running
        \/ \E txt \in In.ends, ok \in Oks, now \in Clock, io \in In.ios :
               LogOdoEndReceived(u, c, txt, ok, now, io) /\ UNCHANGED running
        \/ \E ok \in Oks : Cancel(u, c, ok) /\ UNCHANGED running
        \/ \E txt \in {CmdRegister, CmdLogDrive} \cup In.names :
               Unhandled(u, c, txt) /\ UNCHANGED running

Step(U, C, Oks) == StepOn(U, C, Oks, AllInputs)

\* One user in one chat; a reply may fail to go out.
Next == Step({"u1"}, {"c1"}, BOOLEAN)

Spec == Init /\ [][Next]_vars

\* The same with a transport that never fails: every behaviour of this
\* specification is one of Spec.
NextDelivered == Step({"u1"}, {"c1"}, {TRUE})

SpecDelivered == Init /\ [][NextDelivered]_vars

\* One user in one chat, a transport that delivers, and disk writes
\* (DATA_FILE, EXCEL_FILE) that may fail.
NextIO == StepOn({"u1"}, {"c1"}, {TRUE}, [AllInputs EXCEPT !.ios = IOs])

SpecIO == Init /\ [][NextIO]_vars

\* A smaller choice of texts, for the specifications with two users or two
\* chats: one name, one vehicle, one date, one odometer start, and one
\* reading below and one above it.
FewInputs ==
    [names |-> { <<"B", "o", "b", " ">> },
     vehicles |-> { <<" ", "V", "1">> },
     dates |-> { <<"2", "0", "2", "5", "-", "1", "-", "3", "1">> },
     starts |-> { <<"1", ",", "0", "0", "0">> },
     ends |-> { <<"9", "9", "0">>, <<"1", ",", "0", "1", "0", ".", "0">> },
     ios |-> {Good}]

\* Two users in one chat (a group chat): their updates in every order.
NextPair == StepOn(Users, {"c1"}, {TRUE}, FewInputs)

SpecPair == Init /\ [][NextPair]_vars

\* One user in two chats (a private chat and a group, say).
NextChats == StepOn({"u1"}, Chats, {TRUE}, FewInputs)

SpecChats == Init /\ [][NextChats]_vars

\* Registration next to an account that is there already: u2 registered as
\* Al and logged one drive of 10 km, and is heard of no more; u1 starts
\* unregistered and has two names to give.
RegisterInputs ==
    [FewInputs EXCEPT !.names = @ \cup { <<" ">>, <<"A", "l">> }]

InitRegister ==
    /\ db = Put(EmptyDict, "u2",
                [driver_name |-> <<"A", "l">>, current_deficit |-> 4000,
                 ha_expiry |-> Pending,
                 drives |-> << [date |-> Date(2025, 1, 31),
                                vehicle |-> <<"V", "1">>,
                                odo_start |-> 1000 * 100,
                                odo_end |-> 1010 * 100,
                                distance |-> 1000] >>])
    /\ user_data = [u \in Users |-> EmptyDict]
    /\ register_conv = [k \in Keys |-> END]
    /\ log_drive_conv = [k \in Keys |-> END]
    /\ update = Update("u2", "c1", <<"1", ",", "0", "1", "0", ".", "0">>, TRUE)
    /\ reset_at = [u \in Users |-> 0]
    /\ appends = [k \in Keys |-> IF k = Key("u2", "c1") THEN 1 ELSE 0]
    /\ running = << >>

NextRegister == StepOn({"u1"}, {"c1"}, BOOLEAN, RegisterInputs)

SpecRegister == InitRegister /\ [][NextRegister]_vars

\* ------------------------------------------------ the rule, on its own

\* str(n) for n >= 0, and the text "i.ff" of a reading of v hundredths.
DigitChar(k) ==
    CASE k = 0 -> "0" [] k = 1 -> "1" [] k = 2 -> "2" [] k = 3 -> "3"
      [] k = 4 -> "4" [] k = 5 -> "5" [] k = 6 -> "6" [] k = 7 -> "7"
      [] k = 8 -> "8" [] k = 9 -> "9"

RECURSIVE IntText(_)
IntText(n) ==
    IF n < 10 THEN <<DigitChar(n)>>
    ELSE IntText(n \div 10) \o <<DigitChar(n % 10)>>

OdoText(v) ==
    IntText(v \div 100) \o <<".", DigitChar((v % 100) \div 10), DigitChar(v % 10)>>

\* The odometer start of the capture the rule is tried on (1000.00 km), the
\* distances of
\* the drive logged before it and of the drive it logs, and its dates.
RuleStart == 1000 * 100

PriorDistances == {0, 1000, 2500, 2504, 4000, 4990, 4996, 5000, 7000}

RuleDistances == {0, 4, 10, 1000, 2496, 2500, 4000, 4990, 4996, 5000, 9000}

RuleDates == { Date(2025, 1, 31), Date(2024, 11, 30), Date(2025, 3, 1) }

RuleEndTexts ==
    { OdoText(RuleStart + d) : d \in RuleDistances } \cup { <<"n", "a", "n">> }

RuleUser == "u1"
RuleChat == "c1"

\* The states the rule is tried from: u1 is registered and has a capture
\* waiting in LOG_ODO_END with its three fields accepted; either no drive is
\* stored yet, or one is, logged by this same capture whose final reply
\* then failed to go out (so the capture still waits for the end reading).
InitCapture(dates, priors) ==
    \E date \in dates, prior \in priors, now \in Clock :
        LET fresh == Put(EmptyDict, RuleUser, NewRecord(<<"B", "o", "b">>))
        IN  /\ user_data =
                   [u \in Users |->
                       IF u = RuleUser
                       THEN [vehicle |-> <<"V", "1">>, date_of_drive |-> date,
                             odo_start |-> RuleStart]
                       ELSE EmptyDict]
            /\ db = IF prior = -1 THEN fresh
                    ELSE Finalize(fresh, RuleUser, RuleStart, RuleStart + prior, now)
            /\ register_conv = [k \in Keys |-> END]
            /\ log_drive_conv =
                   [k \in Keys |->
                       IF k = Key(RuleUser, RuleChat) THEN LOG_ODO_END ELSE END]
            /\ update =
                   IF prior = -1
                   THEN Update(RuleUser, RuleChat, OdoText(RuleStart), TRUE)
                   ELSE Update(RuleUser, RuleChat, OdoText(RuleStart + prior), FALSE)
            /\ reset_at =
                   [u \in Users |->
                       IF u = RuleUser /\ db[RuleUser].ha_expiry # Pending
                       THEN 1 ELSE 0]
            /\ appends =
                   [k \in Keys |->
                       IF k = Key(RuleUser, RuleChat) /\ prior # -1 THEN 1 ELSE 0]
            /\ running = << >>

InitRule == InitCapture(RuleDates, PriorDistances \cup {-1})

NextRule ==
    /\ \E txt \in RuleEndTexts, ok \in BOOLEAN, now \in Clock :
           LogOdoEndReceived(RuleUser, RuleChat, txt, ok, now, Good)
    /\ UNCHANGED running

SpecRule == InitRule /\ [][NextRule]_vars

\* ------------------------------------------------ the expiry, on its own

\* Every day of these years, and the first and last dates strptime accepts
\* with the last dates that have a date three months on.
ExpiryYears == 2023..2025

ExpiryDates ==
    { dt \in { Date(y, m, d) : y \in ExpiryYears, m \in 1..12, d \in 1..31 } :
          dt.d <= DaysIn(dt.y, dt.m) }
    \cup { Date(1, 1, 1), Date(MAXYEAR, 9, 30), Date(MAXYEAR, 10, 1),
           Date(MAXYEAR, 12, 31) }

\* The capture waits in LOG_ODO_END on a date of ExpiryDates, the account
\* being new (deficit 0.0) or holding one drive of 0 km (deficit 50.0).
InitExpiry == InitCapture(ExpiryDates, {-1, 0})

NextExpiry ==
    /\ \E d \in {0, 1000, 5000}, now \in Clock :
           LogOdoEndReceived(RuleUser, RuleChat, OdoText(RuleStart + d), TRUE,
                             now, Good)
    /\ UNCHANGED running

SpecExpiry == InitExpiry /\ [][NextExpiry]_vars

\* ------------------------------------------- the handler calls, in turns

\* Every handler is a coroutine with one await on each path, the
\* reply_text before its return.  What it does before that await is one turn
\* of the event loop; what follows the await (user_data.clear() at line 407,
\* the return, and the ConversationHandler storing the state returned) is
\* another.  A call in flight is a record: the update, where the coroutine
\* stands (pc), the conversation and state its return will set, whether it is
\* the finalize of a capture, and the current_deficit that read (line 338).
\*   pc = "write": the finalize has read current_deficit and has yet to
\*                 append the drive and write the deficit (lines 340-385);
\*   pc = "reply": the coroutine is suspended in "await reply_text(...)".
Call(u, c, txt, pc, conv, to, finalize, current_deficit) ==
    [user |-> u, chat |-> c, text |-> txt, pc |-> pc, conv |-> conv, to |-> to,
     finalize |-> finalize, current_deficit |-> current_deficit]

\* A coroutine leaves the event loop to another only at an await.
Suspended(h) == h.pc = "reply"

LoopFree == \A i \in DOMAIN running : Suspended(running[i])

\* An application built with concurrent_updates(True).
concurrent_updates_on == TRUE

\* ApplicationBuilder().token(TOKEN).build() (line 464): concurrent_updates
\* is left at its default, off.
concurrent_updates == FALSE

\* The application takes the next update: with concurrent_updates off, when
\* the handler of the one before has returned.
MayFetch ==
    /\ LoopFree
    /\ concurrent_updates \/ running = << >>
    /\ Len(running) < MaxRunning

\* The handler has run up to its await; its return will set conv to to.
Suspend(u, c, txt, conv, to) ==
    /\ MayFetch
    /\ running' = Append(running, Call(u, c, txt, "reply", conv, to, FALSE, 0))

\* Lines 298-313: the reading passes the checks of log_odo_end_received.
Finalizes(u, c, txt) ==
    /\ TextToLogDrive(u, c, LOG_ODO_END)
    /\ ParseOdo(txt).ok
    /\ Has(user_data[u], "odo_start")
    /\ ~EndBeforeStart(ParseOdo(txt).val, user_data[u]["odo_start"])

\* Lines 296-338: the finalize up to its read of current_deficit.
FinalizeRead(u, c, txt) ==
    /\ MayFetch
    /\ Finalizes(u, c, txt)
    /\ StoredDrives(DOMAIN db) < MaxDrives
    /\ update' = Update(u, c, txt, FALSE)
    /\ running' =
           Append(running,
                  Call(u, c, txt, "write", "log_drive", END, TRUE,
                       IF Has(db, u) THEN db[u].current_deficit ELSE 0))
    /\ UNCHANGED <<db, user_data, register_conv, log_drive_conv, reset_at,
                   appends>>

Remove(q, i) == SubSeq(q, 1, i - 1) \o SubSeq(q, i + 1, Len(q))

\* Lines 340-395: the rule on the deficit that was read, the append and the
\* write of the deficit and the expiry; or the raise of line 353.
FinalizeWrite(i, now) ==
    LET h == running[i]
        u == h.user
        read == IF Has(db, u)
                THEN [db EXCEPT ![u].current_deficit = h.current_deficit]
                ELSE db
        odo_start == user_data[u]["odo_start"]
        odo_end == ParseOdo(h.text).val
    IN  /\ h.pc = "write"
        /\ IF RuleRaises(read, u, odo_start, odo_end)
           THEN /\ running' = Remove(running, i)
                /\ UNCHANGED <<db, reset_at, appends>>
           ELSE /\ db' = Finalize(read, u, odo_start, odo_end, now)
                /\ reset_at' =
                       [reset_at EXCEPT ![u] =
                           IF db'[u].ha_expiry # Pending
                           THEN Len(db'[u].drives) ELSE @]
                /\ appends' = [appends EXCEPT ![Key(u, h.chat)] = @ + 1]
                /\ running' = [running EXCEPT ![i].pc = "reply"]
        /\ UNCHANGED <<user_data, register_conv, log_drive_conv, update>>

\* The await of reply_text is over: the send went through (ok) and the
\* handler returns, or it raised and the conversation stays as it is.
Return(i, ok) ==
    LET h == running[i]
        k == Key(h.user, h.chat)
    IN  /\ h.pc = "reply"
        /\ LoopFree
        /\ update' = Update(h.user, h.chat, h.text, ok)
        /\ running' = Remove(running, i)
        /\ register_conv' =
               IF ok /\ h.conv = "register"
               THEN [register_conv EXCEPT ![k] = h.to] ELSE register_conv
        /\ log_drive_conv' =
               IF ok /\ h.conv = "log_drive"
               THEN [log_drive_conv EXCEPT ![k] = h.to] ELSE log_drive_conv
        /\ user_data' =
               IF ok /\ h.finalize
               THEN [user_data EXCEPT ![h.user] = EmptyDict] ELSE user_data
        /\ appends' =
               IF ok /\ h.text = CmdLogDrive /\ h.to = LOG_VEHICLE
               THEN [appends EXCEPT ![k] = 0] ELSE appends
        /\ UNCHANGED <<db, reset_at>>

\* An update is taken and its handler runs up to its await.
BeginOn(U, C, In) ==
    \E u \in U, c \in C :
        \/ Start(u, c, FALSE) /\ Suspend(u, c, CmdStart, "none", END)
        \/ Status(u, c, FALSE) /\ Suspend(u, c, CmdStatus, "none", END)
        \/ /\ RegisterCommand(u, c, FALSE)
           /\ Suspend(u, c, CmdRegister, "register", REGISTER_NAME)
        \/ \E txt \in In.names :
               /\ RegisterNameReceived(u, c, txt, FALSE, Good)
               /\ Suspend(u, c, txt, "register",
                          IF Strip(txt) = << >> THEN REGISTER_NAME ELSE END)
        \/ /\ LogDriveCommand(u, c, FALSE)
           /\ Suspend(u, c, CmdLogDrive, "log_drive",
                      IF NoRecord(db, u) THEN END ELSE LOG_VEHICLE)
        \/ \E txt \in In.vehicles :
               /\ LogVehicleReceived(u, c, txt, FALSE)
               /\ Suspend(u, c, txt, "log_drive",
                          IF Strip(txt) = << >> THEN LOG_VEHICLE ELSE LOG_DATE)
        \/ \E txt \in In.dates :
               /\ LogDateReceived(u, c, txt, FALSE)
               /\ Suspend(u, c, txt, "log_drive",
                          IF ParseDate(Strip(txt)).ok THEN LOG_ODO_START
                          ELSE LOG_DATE)
        \/ \E txt \in In.starts :
               /\ LogOdoStartReceived(u, c, txt, FALSE)
               /\ Suspend(u, c, txt, "log_drive",
                          IF ParseOdo(txt).ok THEN LOG_ODO_END ELSE LOG_ODO_START)
        \/ \E txt \in In.ends, now \in Clock :
               /\ ~Finalizes(u, c, txt)
               /\ LogOdoEndReceived(u, c, txt, FALSE, now, Good)
               /\ Suspend(u, c, txt, "log_drive",
                          IF ParseOdo(txt).ok /\ ~Has(user_data[u], "odo_start")
                          THEN END ELSE LOG_ODO_END)
        \/ \E txt \in In.ends : FinalizeRead(u, c, txt)
        \/ /\ Cancel(u, c, FALSE)
           /\ Suspend(u, c, CmdCancel,
                      IF register_conv[Key(u, c)] # END THEN "register"
                      ELSE IF log_drive_conv[Key(u, c)] # END THEN "log_drive"
                      ELSE "none", END)
        \/ \E txt \in {CmdRegister, CmdLogDrive} \cup In.names :
               MayFetch /\ Unhandled(u, c, txt) /\ UNCHANGED running

\* One user in two chats, the first capture of a new account waiting for
\* its odometer end in the first; the turns of the handler calls in every order the application
\* and the event loop allow.  The reply of a finalize is sent or raises;
\* the other replies are sent.
InitTurns == InitCapture({ Date(2025, 1, 31) }, {-1})

NextTurns ==
    \/ BeginOn({"u1"}, Chats, FewInputs)
    \/ \E i \in DOMAIN running, now \in Clock : FinalizeWrite(i, now)
    \/ \E i \in DOMAIN running :
           \E ok \in (IF running[i].finalize THEN BOOLEAN ELSE {TRUE}) :
               Return(i, ok)

SpecTurns == InitTurns /\ [][NextTurns]_vars

\* ------------------------------------------------------------ the claims

Accounts == DOMAIN db

Last(q) == q[Len(q)]

\* The distance a stored drive covered (line 322).
DistanceOf(rec) == FSub(rec.odo_end, rec.odo_start)

\* The sum of the distances of drives i..j of q (nan as soon as one is nan).
RECURSIVE SumDistances(_, _, _)
SumDistances(q, i, j) ==
    IF i > j THEN 0
    ELSE LET rest == SumDistances(q, i + 1, j)
         IN  IF IsNaN(DistanceOf(q[i])) \/ IsNaN(rest) THEN NaN
             ELSE DistanceOf(q[i]) + rest

\* This step finalized a capture of u: one drive more is stored.
Finalized(u) ==
    /\ Has(db, u) /\ Has(db', u)
    /\ Len(db'[u].drives) = Len(db[u].drives) + 1

\* This step's finalize reset u's cycle.
CycleReset(u) == Finalized(u) /\ db'[u].ha_expiry # Pending

\* C1: the cycle is reset only when the drives logged since the previous
\* reset (or since registration) add up to at least 50 km.
C1_ResetOnlyAfterFiftyKm ==
    [][\A u \in Users :
          CycleReset(u) =>
              FGe(SumDistances(db'[u].drives, reset_at[u] + 1,
                               Len(db'[u].drives)), FIFTY)]_vars

\* The date three calendar months after dt: month number + 3, and the
\* greatest day of that month that is not after dt's day.
ThreeMonthsAfter(dt) ==
    LET n == 12 * dt.y + (dt.m - 1) + 3
        y2 == n \div 12
        m2 == (n % 12) + 1
        ok(k) == k <= dt.d /\ k <= DaysIn(y2, m2)
    IN  Date(y2, m2, CHOOSE k \in 1..31 : ok(k) /\ \A j \in 1..31 : ok(j) => j <= k)

\* C2: for a prior deficit in [0, 50] and a distance >= 0, on a drive whose
\* date was captured: distance + prior >= 50 gives deficit 0 and the expiry
\* three months after the drive date; otherwise the deficit is
\* round(50 - prior - distance, 1) and the expiry is pending.
C2_RuleEvaluation ==
    [][\A u \in Users :
          Finalized(u) =>
              LET prior == db[u].current_deficit
                  rec == Last(db'[u].drives)
                  distance == DistanceOf(rec)
              IN  (/\ FGe(prior, 0) /\ FGe(FIFTY, prior)
                   /\ FGe(distance, 0)
                   /\ rec.date # NoneDate)
                  => IF distance + prior >= FIFTY
                     THEN /\ db'[u].current_deficit = 0
                          /\ db'[u].ha_expiry = ThreeMonthsAfter(rec.date)
                     ELSE /\ db'[u].current_deficit =
                                 Round1(FIFTY - prior - distance)
                          /\ db'[u].ha_expiry = Pending]_vars

\* C2's case: a prior deficit of 40.0, a drive of exactly 10.00 km dated
\* 2025-01-31: the cycle is reset and the expiry is 2025-04-30.
C2_Witness ==
    /\ Has(db, RuleUser)
    /\ Len(db[RuleUser].drives) = 2
    /\ DistanceOf(db[RuleUser].drives[1]) = 1000
    /\ DistanceOf(db[RuleUser].drives[2]) = 1000
    /\ db[RuleUser].drives[2].date = Date(2025, 1, 31)
    /\ db[RuleUser].current_deficit = 0
    /\ db[RuleUser].ha_expiry = Date(2025, 4, 30)

\* C3: a non-resetting drive on a prior deficit in [0, 50] stores a deficit
\* strictly below the prior one when its distance is > 0, and the prior one
\* when its distance is 0.
C3_MonotonicDeficit ==
    [][\A u \in Users :
          (Finalized(u) /\ ~CycleReset(u)) =>
              LET prior == db[u].current_deficit
                  distance == DistanceOf(Last(db'[u].drives))
              IN  (FGe(prior, 0) /\ FGe(FIFTY, prior))
                  => /\ FLt(0, distance) => FLt(db'[u].current_deficit, prior)
                     /\ distance = 0 => db'[u].current_deficit = prior]_vars

\* C4: every account's current_deficit is in [0, 50].
C4_DeficitInRange ==
    \A u \in Accounts :
        FGe(db[u].current_deficit, 0) /\ FGe(FIFTY, db[u].current_deficit)

\* The last rule evaluation for u reset the cycle: the drive stored last is
\* the one at which the cycle was reset last.
LastEvaluationReset(u) ==
    Len(db[u].drives) > 0 /\ reset_at[u] = Len(db[u].drives)

\* C5: an account's current_deficit is 0 exactly when the most recent rule
\* evaluation for it reset the cycle.
C5_ZeroIffReset ==
    \A u \in Accounts : (db[u].current_deficit = 0) <=> LastEvaluationReset(u)

\* C6: finalize runs only when the candidate holds a vehicle, a date and an
\* odometer start (the odometer end is the input being handled).
C6_FinalizeOnlyWithAllFields ==
    [][\A u \in Users :
          Finalized(u) =>
              /\ Has(user_data[u], "vehicle")
              /\ Has(user_data[u], "date_of_drive")
              /\ Has(user_data[u], "odo_start")]_vars

CaptureStates == {LOG_VEHICLE, LOG_DATE, LOG_ODO_START, LOG_ODO_END}

\* The texts a capture state must turn down, told apart by hand: a blank
\* vehicle; a date that is no calendar date or not YYYY-MM-DD; an odometer
\* reading that is no number or is negative; and, in LOG_ODO_END, a reading
\* below the accepted odometer start.
RejectedTexts(st, u) ==
    CASE st = LOG_VEHICLE -> { <<" ", " ">> }
      [] st = LOG_DATE ->
            { <<"2", "0", "2", "5", "-", "0", "2", "-", "3", "0">>,
              <<"3", "1", "/", "0", "1", "/", "2", "0", "2", "5">> }
      [] st = LOG_ODO_START -> { <<"-", "5">>, <<"a", "b", "c">> }
      [] st = LOG_ODO_END ->
            { <<"-", "1">>, <<"1", "2", "k", "m">> }
            \cup (IF Has(user_data[u], "odo_start")
                     /\ user_data[u]["odo_start"] = 1000 * 100
                  THEN { <<"9", "9", "0">> } ELSE {})

\* C7: an input that fails the validation of the capture state it is
\* handled in leaves the candidate, the conversation states and the account
\* store as they were.
C7_RejectedInputChangesNothing ==
    [][\A u \in Users, c \in Chats, st \in CaptureStates :
          (/\ TextToLogDrive(u, c, st)
           /\ update'.user = u /\ update'.chat = c
           /\ update'.text \in RejectedTexts(st, u))
          => UNCHANGED <<user_data, log_drive_conv, register_conv, db>>]_vars

\* C7's case: the capture holds an odometer start of 1000 km, the reading
\* 990 has just been turned down, and the capture still waits in LOG_ODO_END
\* with its three fields.
C7_Witness ==
    /\ update = Update("u1", "c1", <<"9", "9", "0">>, TRUE)
    /\ log_drive_conv[Key("u1", "c1")] = LOG_ODO_END
    /\ register_conv[Key("u1", "c1")] = END
    /\ Has(user_data["u1"], "odo_start")
    /\ user_data["u1"]["odo_start"] = 1000 * 100
    /\ Has(user_data["u1"], "vehicle")
    /\ Has(user_data["u1"], "date_of_drive")

\* This step handled /log_drive from u in c.
LogDriveIssued(u, c) ==
    update'.user = u /\ update'.chat = c /\ update'.text = CmdLogDrive

\* C8, as claimed: /log_drive while a capture is open for the key replaces
\* it: the capture is then in LOG_VEHICLE and no field is carried over.
C8_LogDriveReplacesSession ==
    [][\A u \in Users, c \in Chats :
          (log_drive_conv[Key(u, c)] # END /\ LogDriveIssued(u, c))
          => /\ log_drive_conv'[Key(u, c)] = LOG_VEHICLE
             /\ user_data'[u] = EmptyDict]_vars

\* C8, amended: /log_drive while a capture is open for the key is taken by
\* no handler: no reply, and the capture's state, the candidate, the
\* registration conversation and the account store stay as they were.
C8_LogDriveIgnoredWhileOpen ==
    [][\A u \in Users, c \in Chats :
          (log_drive_conv[Key(u, c)] # END /\ LogDriveIssued(u, c))
          => /\ ~update'.replied
             /\ UNCHANGED <<log_drive_conv, user_data, register_conv, db,
                            appends>>]_vars

\* C8's case: /log_drive has just been sent into a capture that had its
\* vehicle and date; the capture still waits for the odometer start.
C8_Witness ==
    /\ update.user = "u1" /\ update.chat = "c1" /\ update.text = CmdLogDrive
    /\ log_drive_conv[Key("u1", "c1")] = LOG_ODO_START
    /\ Has(user_data["u1"], "vehicle")
    /\ Has(user_data["u1"], "date_of_drive")

\* C9: /cancel for a key whose capture is open ends that capture, discards
\* the candidate and changes no account, whether or not a registration is
\* open for the key (the cancel handler having sent its reply).
C9_CancelEndsCapture ==
    [][\A u \in Users, c \in Chats :
          (/\ log_drive_conv[Key(u, c)] # END
           /\ update' = Update(u, c, CmdCancel, TRUE))
          => /\ log_drive_conv'[Key(u, c)] = END
             /\ user_data'[u] = EmptyDict
             /\ db' = db]_vars

\* C10: no capture session appends more than one drive (nor applies the
\* rule more than once: each append comes with one rule application).
C10_OneAppendPerCapture ==
    \A k \in Keys : appends[k] <= 1

\* The readings log_odo_end_received accepts over an odometer start of
\* 1000 km, told apart by hand.
AcceptedEnds ==
    { <<"1", "0", "0", "0">>, <<"1", ",", "0", "1", "0", ".", "0">>,
      <<" ", "n", "a", "n", " ">> }

\* C11: when save_data or append_drive_to_excel fails during a finalize, the
\* account holds the appended drive and the new current_deficit and
\* ha_expiry all the same, the result message is sent, the capture ends and
\* its candidate is cleared.
C11_FailureNotFatal ==
    [][\A u \in Users, c \in Chats :
          (/\ TextToLogDrive(u, c, LOG_ODO_END)
           /\ Has(user_data[u], "odo_start")
           /\ user_data[u]["odo_start"] = 1000 * 100
           /\ update'.user = u /\ update'.chat = c
           /\ update'.text \in AcceptedEnds
           /\ update'.io # Good)
          => /\ \E now \in Clock :
                    db' = Finalize(db, u, 1000 * 100,
                                   ParseOdo(update'.text).val, now)
             /\ Len(db'[u].drives) = Len(db[u].drives) + 1
             /\ update'.replied
             /\ log_drive_conv'[Key(u, c)] = END
             /\ user_data'[u] = EmptyDict]_vars

\* C11's case: both the save and the export of a finalize have failed; the
\* drive is stored, the reply went out and the capture is over.
C11_Witness ==
    /\ update.user = "u1" /\ update.text = <<"1", ",", "0", "1", "0", ".", "0">>
    /\ update.io = [saved |-> FALSE, exported |-> FALSE]
    /\ update.replied
    /\ Has(db, "u1") /\ Len(db["u1"].drives) = 1
    /\ db["u1"].current_deficit = 4000
    /\ log_drive_conv[Key("u1", "c1")] = END
    /\ user_data["u1"] = EmptyDict

\* u has a capture session open in some chat.
MidCapture(u) == \E c \in Chats : log_drive_conv[Key(u, c)] \in CaptureStates

\* C12: while two distinct accounts are both mid-capture, a step that
\* handles an update of one of them (an advance, a cancel, a finalize)
\* leaves the other's candidate, conversation states and account record as
\* they were.
C12_RegistryIsolation ==
    [][\A u \in Users, v \in Users :
          (/\ u # v
           /\ MidCapture(u) /\ MidCapture(v)
           /\ update'.user = u)
          => /\ user_data'[v] = user_data[v]
             /\ \A c \in Chats :
                    /\ log_drive_conv'[Key(v, c)] = log_drive_conv[Key(v, c)]
                    /\ register_conv'[Key(v, c)] = register_conv[Key(v, c)]
             /\ Has(db', v) = Has(db, v)
             /\ Has(db, v) => db'[v] = db[v]]_vars

\* C12's case: u2 has just finalized a capture while u1 waits in
\* LOG_ODO_END with its three fields and no drive stored.
C12_Witness ==
    /\ update.user = "u2"
    /\ update.text = <<"1", ",", "0", "1", "0", ".", "0">>
    /\ Has(db, "u2") /\ Len(db["u2"].drives) = 1
    /\ Has(db, "u1") /\ db["u1"].drives = << >>
    /\ log_drive_conv[Key("u1", "c1")] = LOG_ODO_END
    /\ Has(user_data["u1"], "vehicle")
    /\ Has(user_data["u1"], "date_of_drive")
    /\ Has(user_data["u1"], "odo_start")

\* C13: a drive with a captured date that resets the cycle stores as expiry
\* the date three calendar months after the drive date, with the same day
\* of the month, or the last day of that month when it has no such day.
C13_ExpiryThreeMonthsOn ==
    [][\A u \in Users :
          (CycleReset(u) /\ Last(db'[u].drives).date # NoneDate)
          => db'[u].ha_expiry = ThreeMonthsAfter(Last(db'[u].drives).date)]_vars

\* C13's case: on a deficit of 50.0 a drive of 10 km dated 2025-01-31 has
\* reset the cycle, and the expiry is 2025-04-30.
C13_Witness ==
    /\ Has(db, RuleUser)
    /\ Len(db[RuleUser].drives) = 2
    /\ DistanceOf(db[RuleUser].drives[1]) = 0
    /\ DistanceOf(db[RuleUser].drives[2]) = 1000
    /\ db[RuleUser].drives[2].date = Date(2025, 1, 31)
    /\ db[RuleUser].current_deficit = 0
    /\ db[RuleUser].ha_expiry = Date(2025, 4, 30)

\* C14: /log_drive from an account not in the store opens no capture and
\* creates no record; a record enters the store only by a registration
\* (register_name_received given a name), as the record registration builds;
\* and a capture is open only for accounts in the store, so that the
\* account-creating fallbacks of finalize and add_drive_record are never
\* taken.
C14_CaptureOnlyWhenRegistered ==
    [][\A u \in Users :
          /\ \A c \in Chats :
                 (LogDriveIssued(u, c) /\ ~Has(db, u))
                 => /\ log_drive_conv'[Key(u, c)] = END
                    /\ UNCHANGED <<db, user_data, log_drive_conv, register_conv>>
          /\ (~Has(db, u) /\ Has(db', u))
             => /\ update'.user = u
                /\ register_conv[Key(u, update'.chat)] = REGISTER_NAME
                /\ update'.text = <<"B", "o", "b", " ">>
                /\ db'[u] = [driver_name |-> <<"B", "o", "b">>,
                             current_deficit |-> 0, ha_expiry |-> Pending,
                             drives |-> << >>]
          /\ \A c \in Chats :
                 log_drive_conv'[Key(u, c)] # END => Has(db', u)]_vars

\* C14's case: /log_drive of an unregistered user has been answered, and
\* there is neither a capture nor a record.
C14_Witness ==
    /\ update = Update("u1", "c1", CmdLogDrive, TRUE)
    /\ ~Has(db, "u1")
    /\ log_drive_conv[Key("u1", "c1")] = END
    /\ user_data["u1"] = EmptyDict

\* A drive record as the data model has it: readings that are numbers,
\* odo_start >= 0, odo_end >= odo_start, and
\* distance = round(odo_end - odo_start, 1) >= 0.
WellFormedDrive(rec) ==
    /\ FGe(rec.odo_start, 0)
    /\ FGe(rec.odo_end, rec.odo_start)
    /\ rec.distance = Round1(rec.odo_end - rec.odo_start)
    /\ FGe(rec.distance, 0)

\* C15: every drive stored in any account is well formed, and a reading
\* below the accepted odometer start is turned down: the capture stays in
\* LOG_ODO_END and the candidate (its odo_start with it) and the accounts
\* stay as they were.
C15_StoredDrivesWellFormed ==
    [][/\ \A u \in DOMAIN db' :
              \A i \in 1..Len(db'[u].drives) : WellFormedDrive(db'[u].drives[i])
       /\ \A u \in Users, c \in Chats :
              (/\ TextToLogDrive(u, c, LOG_ODO_END)
               /\ Has(user_data[u], "odo_start")
               /\ user_data[u]["odo_start"] = 1000 * 100
               /\ update'.user = u /\ update'.chat = c
               /\ update'.text = <<"9", "9", "0">>)
              => /\ log_drive_conv'[Key(u, c)] = LOG_ODO_END
                 /\ user_data'[u] = user_data[u]
                 /\ db' = db]_vars

\* C16: at most one finalize is in flight per account.  While a finalize of
\* an account is in flight, from its read of current_deficit to its return,
\* no other handler call of that account is in flight; and the step after
\* its read is its own write, applied to the account as it is stored: the
\* deficit it read is still the stored one, and the registry either stays
\* as it is (the raise of line 353) or becomes what the rule makes of the
\* stored account, so no write of another call is lost.
C16_OneFinalizeInFlight ==
    [][ /\ \A i, j \in DOMAIN running' :
               (running'[i].finalize /\ running'[j].user = running'[i].user)
                   => i = j
        /\ \A i \in DOMAIN running :
               running[i].pc = "write" =>
                   LET h == running[i]
                   IN  /\ Has(db, h.user)
                       /\ db[h.user].current_deficit = h.current_deficit
                       /\ \A j \in DOMAIN running' : running'[j].pc # "write"
                       /\ \/ db' = db
                          \/ \E now \in Clock :
                                 db' = Finalize(db, h.user,
                                                user_data[h.user]["odo_start"],
                                                ParseOdo(h.text).val, now)
      ]_vars

\* A finalize is in flight, its drive stored and its reply awaited, and it
\* is the only call in flight.
C16_Witness ==
    /\ Len(running) = 1
    /\ running[1].finalize
    /\ running[1].pc = "reply"
    /\ Has(db, running[1].user)
    /\ appends[Key(running[1].user, running[1].chat)] = 1

\* C17: no step removes an account from the store, and an account's drives
\* only grow at the end: every drive stored before the step is at the same
\* position after it, with the same fields.
C17_HistoryAppendOnly ==
    [][\A u \in DOMAIN db :
          /\ Has(db', u)
          /\ Len(db'[u].drives) >= Len(db[u].drives)
          /\ \A i \in 1..Len(db[u].drives) :
                 db'[u].drives[i] = db[u].drives[i]]_vars

\* C17's case: the account holds two different drives, in the order in
\* which they were logged (0 km, then 10 km), and has been registered anew
\* since.
C17_Witness ==
    /\ Has(db, "u1")
    /\ Len(db["u1"].drives) = 2
    /\ DistanceOf(db["u1"].drives[1]) = 0
    /\ DistanceOf(db["u1"].drives[2]) = 1000
    /\ update = Update("u1", "c1", <<"B", "o", "b", " ">>, TRUE)

\* C18: while an account has captures open in two chats, a step that
\* handles its update in one chat (an accepted field, a cancel, a
\* completion) leaves the candidate of the capture in the other chat as it
\* was.  The candidate of either capture is context.user_data of the user.
C18_CandidatePerChat ==
    [][\A u \in Users, c \in Chats, other \in Chats :
          (/\ c # other
           /\ log_drive_conv[Key(u, c)] \in CaptureStates
           /\ log_drive_conv[Key(u, other)] \in CaptureStates
           /\ update'.user = u /\ update'.chat = c)
          => user_data'[u] = user_data[u]]_vars

\* ha_expiry holds a date, not "HA status pending.".
IsDate(x) == x.y >= 1 /\ x.m \in 1..12 /\ x.d \in 1..31

\* The rule resets the cycle: the distance is a number, and at least what
\* 50 km lacks of the prior deficit (at least 0 where that is negative).
ResetsCycle(prior, distance) ==
    /\ ~IsNaN(prior) /\ ~IsNaN(distance)
    /\ distance >= (IF FIFTY - prior < 0 THEN 0 ELSE FIFTY - prior)

\* C19: after a finalize, ha_expiry is a date exactly when the rule
\* evaluation of that finalize reset the cycle; otherwise it is the pending
\* value, whatever date it held before.
C19_ExpiryIffReset ==
    [][\A u \in Users :
          Finalized(u) =>
              LET reset == ResetsCycle(db[u].current_deficit,
                                       DistanceOf(Last(db'[u].drives)))
              IN  /\ IsDate(db'[u].ha_expiry) <=> reset
                  /\ ~reset => db'[u].ha_expiry = Pending]_vars

\* C19's case: the first drive (50 km) reset the cycle and set a date, the
\* second (10 km) did not, and ha_expiry is pending again.
C19_Witness ==
    /\ Has(db, RuleUser)
    /\ Len(db[RuleUser].drives) = 2
    /\ reset_at[RuleUser] = 1
    /\ DistanceOf(db[RuleUser].drives[1]) = 5000
    /\ DistanceOf(db[RuleUser].drives[2]) = 1000
    /\ db[RuleUser].ha_expiry = Pending

\* The record of an account just created by registration under the name n.
FreshAccount(n) ==
    [driver_name |-> n, current_deficit |-> 0, ha_expiry |-> Pending,
     drives |-> << >>]

\* The name register_name_received makes of a text, told by hand.
NameOf(txt) ==
    CASE txt = <<"B", "o", "b", " ">> -> <<"B", "o", "b">>
      [] txt = <<"A", "l">> -> <<"A", "l">>

\* C20: a name sent to an open registration changes, of a known account,
\* only driver_name, and creates for an unknown id the record with deficit
\* 0, expiry pending and no drives; every other account stays as it was;
\* a blank name changes nothing and leaves the registration open.
C20_RegistrationFrame ==
    [][\A u \in Users, c \in Chats :
          (/\ TextToRegister(u, c)
           /\ update'.user = u /\ update'.chat = c)
          => /\ update'.text = <<" ">>
                => /\ UNCHANGED <<db, user_data, log_drive_conv, register_conv>>
                   /\ register_conv'[Key(u, c)] = REGISTER_NAME
             /\ update'.text \in { <<"B", "o", "b", " ">>, <<"A", "l">> }
                => /\ Has(db', u)
                   /\ db'[u] = IF Has(db, u)
                               THEN [driver_name |-> NameOf(update'.text),
                                     current_deficit |-> db[u].current_deficit,
                                     ha_expiry |-> db[u].ha_expiry,
                                     drives |-> db[u].drives]
                               ELSE FreshAccount(NameOf(update'.text))
                   /\ \A v \in Users \ {u} :
                          /\ Has(db', v) = Has(db, v)
                          /\ Has(db, v) => db'[v] = db[v]]_vars

\* C20's case: u1, holding a drive and a deficit of 40.0, has registered
\* again as Al; u2's account is as it was.
C20_Witness ==
    /\ update = Update("u1", "c1", <<"A", "l">>, TRUE)
    /\ Has(db, "u1")
    /\ db["u1"].driver_name = <<"A", "l">>
    /\ Len(db["u1"].drives) = 1
    /\ db["u1"].current_deficit = 4000
    /\ Has(db, "u2")
    /\ db["u2"].driver_name = <<"A", "l">>
    /\ Len(db["u2"].drives) = 1
    /\ register_conv[Key("u1", "c1")] = END

====
